---- MODULE Spec2Model ----
(***************************************************************************)
(* A model of bpl's memory subsystem: the bump-pointer Arena               *)
(* (bpl/arena.hpp), the stateless allocators (bpl/allocator.hpp) and the   *)
(* growable Array (bpl/array.hpp).                                         *)
(*                                                                         *)
(* Addresses and sizes are uintptr_t / size_t: unsigned integers of        *)
(* AddrBits bits, on which + and - wrap.  The model keeps that width and   *)
(* scales it down.                                                         *)
(***************************************************************************)
EXTENDS Integers, Sequences, FiniteSets, TLC

(***************************************************************************)
(* Bounds of the model.                                                    *)
(***************************************************************************)
\* Width in bits of uintptr_t and size_t.
AddrBits == 5
\* log2 of the page size the platform reports.
PageBits == 2
\* Alignments are 2^0 .. 2^MaxAlignBits.
MaxAlignBits == 1
\* An Arena is constructed over 1 .. MaxPages pages.
MaxPages == 2
\* Sizes passed to the arena are 0 .. MaxSize and the MaxSize largest size_t values.
MaxSize == 2
\* At most MaxBlocks blocks are issued by an arena in one run.
MaxBlocks == 2

TwoW == 2 ^ AddrBits
SizeMax == TwoW - 1
PageSize == 2 ^ PageBits
Aligns == {2 ^ k : k \in 0..MaxAlignBits}
Sizes == (0..MaxSize) \cup ((TwoW - MaxSize)..SizeMax)

\* Unsigned arithmetic of width AddrBits.
Wrap(x) == x % TwoW

NullBlock == [ptr |-> 0, size |-> 0]

(***************************************************************************)
(* bpl/bit.hpp                                                             *)
(***************************************************************************)
\* x & ~(alignment - 1); alignment is a power of two.
align_backward(x, alignment) == x - (x % alignment)

\* BPL_DEBUG_ASSERT(alignment - 1 <= max - x)
align_forward_pre(x, alignment) == alignment - 1 <= SizeMax - x

align_forward(x, alignment) == align_backward(Wrap(x + (alignment - 1)), alignment)

(***************************************************************************)
(* bpl/os.hpp: reserve_memory rounds the size up to whole pages; the       *)
(* region starts on a page boundary.                                       *)
(***************************************************************************)
reserve_memory(size) ==
    [ptr |-> PageSize, size |-> ((size + PageSize - 1) \div PageSize) * PageSize]

(***************************************************************************)
(* Arena::push, as functions of the arena's fields.                        *)
(***************************************************************************)
push_begin(end, alignment) == align_forward(end, alignment)

push_end(end, size, alignment) ==
    align_forward(Wrap(push_begin(end, alignment) + size), alignment)

\* The debug assertions of the two align_forward calls.
push_pre(end, size, alignment) ==
    /\ align_forward_pre(end, alignment)
    /\ align_forward_pre(Wrap(push_begin(end, alignment) + size), alignment)

\* The negation of `addr_end > ptr_to_addr(m_block.ptr) + m_block.size`.
push_fits(block, end, size, alignment) ==
    ~(push_end(end, size, alignment) > Wrap(block.ptr + block.size))

push_block(block, end, size, alignment) ==
    IF push_fits(block, end, size, alignment)
    THEN [ptr |-> push_begin(end, alignment),
          size |-> Wrap(push_end(end, size, alignment) - push_begin(end, alignment))]
    ELSE NullBlock

push_cursor(block, end, size, alignment) ==
    IF push_fits(block, end, size, alignment)
    THEN push_end(end, size, alignment)
    ELSE end

(***************************************************************************)
(* Arena::pop                                                              *)
(***************************************************************************)
pop_pre(end, alignment) == align_forward_pre(end, alignment)

pop_ok(end, block, alignment) ==
    Wrap(block.ptr + block.size) = align_forward(end, alignment)

pop_cursor(end, block, alignment) ==
    IF pop_ok(end, block, alignment) THEN block.ptr ELSE end

(***************************************************************************)
(* Arena::try_grow                                                         *)
(***************************************************************************)
grow_top(end, block) == Wrap(block.ptr + block.size) = end

try_grow_block(ablock, end, block, alignment, additional) ==
    IF ~grow_top(end, block)
    THEN NullBlock
    ELSE [ptr |-> block.ptr,
          size |-> Wrap(block.size + push_block(ablock, end, additional, alignment).size)]

try_grow_cursor(ablock, end, block, alignment, additional) ==
    IF ~grow_top(end, block)
    THEN end
    ELSE push_cursor(ablock, end, additional, alignment)

(***************************************************************************)
(* Arena::try_shrink                                                       *)
(***************************************************************************)
shrink_tail(block, new_size) ==
    [ptr |-> Wrap(block.ptr + new_size), size |-> Wrap(block.size - new_size)]

try_shrink_ok(end, block, alignment, new_size) ==
    IF new_size > block.size
    THEN FALSE
    ELSE pop_ok(end, shrink_tail(block, new_size), alignment)

try_shrink_cursor(end, block, alignment, new_size) ==
    IF new_size > block.size
    THEN end
    ELSE pop_cursor(end, shrink_tail(block, new_size), alignment)

(***************************************************************************)
(* State.                                                                  *)
(***************************************************************************)
VARIABLES
    ndebug,     \* TRUE: built with NDEBUG, BPL_DEBUG_ASSERT is compiled out
    aborted,    \* the process has aborted (BPL_FAIL_FAST)
    m_block,    \* Arena::m_block
    m_end,      \* Arena::m_end
    blocks,     \* the live blocks the arena issued, oldest first: [ptr, size, align]
    phase,      \* "push": only pushes so far; "pop": then only pops of the top live block
    last,       \* the last call: its name, whether it succeeded, the block it returned
    a_kind,     \* the Array's allocator type A: "Global" or "Arena"
    a_block,    \* Array::m_block
    a_count,    \* Array::m_count
    a_slots,    \* the element slots of a_block: [v: the value stored, live: constructed]
    heap,       \* the blocks GlobalAllocator handed out and has not seen freed
    ub,         \* the last call read or wrote outside the array's block
    ref,        \* the reference list: what the calls so far produce on a plain list
    only_appends,   \* every call so far was append(x), on an initially empty array
    reallocs,   \* the allocate-and-relocate events of those appends
    rb_elem,    \* RingBuffer<T>: sizeof(T) = alignof(T)
    rb_trivial, \* T is an implicit-lifetime type (assignment may start its lifetime)
    rb_n,       \* the capacity the RingBuffer was constructed with
    rb_block,   \* RingBuffer::m_block
    rb_read,    \* RingBuffer::m_read_index
    rb_write,   \* RingBuffer::m_write_index
    rb_slots,   \* the values in the slots of rb_block
    rb_fifo,    \* the reference queue: the values of the accepted pushes not yet popped
    rb_fresh,   \* no pop has been called and no push refused since construction
    f_args,     \* the arguments of the pure function under check
    objs,       \* the Arena objects of the lifetime model: alive flag, m_block, m_end
    regions     \* per region reserved from the OS, how many times it was released

arrayVars == <<a_kind, a_block, a_count, a_slots, heap, ub, ref, only_appends, reallocs>>

ringVars == <<rb_elem, rb_trivial, rb_n, rb_block, rb_read, rb_write, rb_slots, rb_fifo, rb_fresh>>

\* What the Arena and Array calls leave alone.
lifeVars == <<objs, regions>>

otherVars == <<ringVars, f_args, lifeVars>>

vars == <<ndebug, aborted, m_block, m_end, blocks, phase, last, arrayVars, otherVars>>

\* No RingBuffer has been constructed.
RingIdle ==
    /\ rb_elem = 0 /\ rb_trivial = TRUE /\ rb_n = 0 /\ rb_block = NullBlock
    /\ rb_read = 0 /\ rb_write = 0 /\ rb_slots = <<>> /\ rb_fifo = <<>>
    /\ rb_fresh = TRUE

\* No RingBuffer has been constructed and no pure function is under check.
\* No Arena object of the lifetime model exists and no region was reserved.
LifeIdle == objs = <<>> /\ regions = <<>>

OtherIdle == RingIdle /\ f_args = <<>> /\ LifeIdle

NoCall == [op |-> "none", ok |-> FALSE, ret |-> NullBlock]

Called(op, ok, ret) == [op |-> op, ok |-> ok, ret |-> ret]

BlockOf(b) == [ptr |-> b.ptr, size |-> b.size]

Issued(block, alignment) == [ptr |-> block.ptr, size |-> block.size, align |-> alignment]

\* s without its i-th element.
RemoveAt(s, i) == [j \in 1..(Len(s) - 1) |-> IF j < i THEN s[j] ELSE s[j + 1]]

Running == ~aborted

Abort ==
    /\ aborted' = TRUE
    /\ UNCHANGED <<ndebug, m_block, m_end, blocks, phase, last, arrayVars, otherVars>>

\* Arena(capacity)
ArenaInit(capacity) ==
    /\ m_block = reserve_memory(capacity)
    /\ m_end = m_block.ptr
    /\ blocks = <<>>
    /\ phase = "push"
    /\ last = NoCall

\* Array() = default
ArrayInit ==
    /\ a_block = NullBlock
    /\ a_count = 0
    /\ a_slots = <<>>
    /\ heap = {}
    /\ ub = FALSE
    /\ ref = <<>>
    /\ only_appends = TRUE
    /\ reallocs = 0
    /\ OtherIdle

Init ==
    /\ ndebug \in BOOLEAN
    /\ aborted = FALSE
    /\ \E pages \in 1..MaxPages : ArenaInit(pages * PageSize)
    /\ a_kind = "Arena"
    /\ ArrayInit

Push(size, alignment) ==
    /\ Running
    /\ Len(blocks) < MaxBlocks
    /\ IF ~ndebug /\ ~push_pre(m_end, size, alignment)
       THEN Abort
       ELSE /\ m_end' = push_cursor(m_block, m_end, size, alignment)
            /\ blocks' = IF push_fits(m_block, m_end, size, alignment)
                         THEN Append(blocks,
                                     Issued(push_block(m_block, m_end, size, alignment), alignment))
                         ELSE blocks
            /\ phase' = IF phase = "push" THEN "push" ELSE "off"
            /\ last' = Called("push", push_fits(m_block, m_end, size, alignment),
                              push_block(m_block, m_end, size, alignment))
            /\ UNCHANGED <<ndebug, aborted, m_block, arrayVars, otherVars>>

Pop(i, alignment) ==
    /\ Running
    /\ i \in 1..Len(blocks)
    /\ IF ~ndebug /\ ~pop_pre(m_end, alignment)
       THEN Abort
       ELSE /\ m_end' = pop_cursor(m_end, BlockOf(blocks[i]), alignment)
            /\ blocks' = IF pop_ok(m_end, BlockOf(blocks[i]), alignment)
                         THEN RemoveAt(blocks, i)
                         ELSE blocks
            /\ phase' = IF /\ phase \in {"push", "pop"}
                           /\ i = Len(blocks)
                           /\ alignment = blocks[i].align
                           /\ (last.op = "pop" => last.ok)
                        THEN "pop"
                        ELSE "off"
            /\ last' = Called("pop", pop_ok(m_end, BlockOf(blocks[i]), alignment), NullBlock)
            /\ UNCHANGED <<ndebug, aborted, m_block, arrayVars, otherVars>>

\* clear() that forgets the blocks but leaves the cursor where it is.
ClearKeepsCursor ==
    /\ Running
    /\ m_end' = m_end
    /\ blocks' = <<>>
    /\ phase' = "off"
    /\ last' = Called("clear", TRUE, NullBlock)
    /\ UNCHANGED <<ndebug, aborted, m_block, arrayVars, otherVars>>

Clear ==
    /\ Running
    /\ m_end' = m_block.ptr
    /\ blocks' = <<>>
    /\ phase' = "off"
    /\ last' = Called("clear", TRUE, NullBlock)
    /\ UNCHANGED <<ndebug, aborted, m_block, arrayVars, otherVars>>

TryGrow(i, alignment, additional) ==
    /\ Running
    /\ i \in 1..Len(blocks)
    /\ IF ~ndebug /\ grow_top(m_end, BlockOf(blocks[i])) /\ ~push_pre(m_end, additional, alignment)
       THEN Abort
       ELSE /\ m_end' = try_grow_cursor(m_block, m_end, BlockOf(blocks[i]), alignment, additional)
            /\ blocks' = IF /\ grow_top(m_end, BlockOf(blocks[i]))
                            /\ push_fits(m_block, m_end, additional, alignment)
                         THEN [blocks EXCEPT ![i].size =
                                  try_grow_block(m_block, m_end, BlockOf(blocks[i]),
                                                 alignment, additional).size]
                         ELSE blocks
            /\ phase' = "off"
            /\ last' = Called("try_grow",
                              /\ grow_top(m_end, BlockOf(blocks[i]))
                              /\ push_fits(m_block, m_end, additional, alignment),
                              try_grow_block(m_block, m_end, BlockOf(blocks[i]),
                                             alignment, additional))
            /\ UNCHANGED <<ndebug, aborted, m_block, arrayVars, otherVars>>

TryShrink(i, alignment, new_size) ==
    /\ Running
    /\ i \in 1..Len(blocks)
    /\ IF ~ndebug /\ new_size <= blocks[i].size /\ ~pop_pre(m_end, alignment)
       THEN Abort
       ELSE /\ m_end' = try_shrink_cursor(m_end, BlockOf(blocks[i]), alignment, new_size)
            /\ blocks' = IF try_shrink_ok(m_end, BlockOf(blocks[i]), alignment, new_size)
                         THEN [blocks EXCEPT ![i].size = new_size]
                         ELSE blocks
            /\ phase' = "off"
            /\ last' = Called("try_shrink",
                              try_shrink_ok(m_end, BlockOf(blocks[i]), alignment, new_size),
                              NullBlock)
            /\ UNCHANGED <<ndebug, aborted, m_block, arrayVars, otherVars>>

Next ==
    \/ \E size \in Sizes, alignment \in Aligns : Push(size, alignment)
    \/ \E i \in 1..MaxBlocks, alignment \in Aligns : Pop(i, alignment)
    \/ Clear
    \/ \E i \in 1..MaxBlocks, alignment \in Aligns, additional \in Sizes :
          TryGrow(i, alignment, additional)
    \/ \E i \in 1..MaxBlocks, alignment \in Aligns, new_size \in Sizes :
          TryShrink(i, alignment, new_size)

Spec == Init /\ [][Next]_vars

(***************************************************************************)
(* Array<T, A>: a dynamic array of T over an allocator A that is either    *)
(* GlobalAllocator or an Arena.  T is a trivially copyable element type    *)
(* whose size equals its alignment.  A slot of the current block holds a   *)
(* value and whether an object is alive there; a slot nothing was ever     *)
(* constructed in holds Uninit.                                            *)
(***************************************************************************)
ElemBits == 1        \* log2 sizeof(T)
PtrBits == 1         \* log2 sizeof(void*)
MaxLen == 3          \* counts and indices passed to the Array are 0..MaxLen
MaxVal == 2          \* element values passed to the Array are 1..MaxVal
MaxHeap == 2         \* aligned_alloc hands out at most MaxHeap distinct pointers

SizeofT == 2 ^ ElemBits
AlignofT == SizeofT
PtrSize == 2 ^ PtrBits
DefaultVal == 0
Uninit == 0 - 1
Vals == 1..MaxVal
Counts == 0..MaxLen
\* Counts whose size in bytes exceeds the largest size_t; the first wraps to 0.
BigCounts == {TwoW \div SizeofT + k : k \in 0..MaxLen}
HeapPtrs == {PtrSize * k : k \in 1..MaxHeap}

min(a, b) == IF a < b THEN a ELSE b
max(a, b) == IF a < b THEN b ELSE a

FreshSlot == [v |-> Uninit, live |-> FALSE]
capacity(block) == block.size \div SizeofT

\* The Array together with its allocator, as a value the modifiers transform.
\* st is "ok", "abort" (an assertion failed) or "ub" (behaviour undefined).
\* twice: the call destroyed an object that was not alive; lost: the call gave up
\* a block that still held a live object.
Self == [block |-> a_block, count |-> a_count, slots |-> a_slots,
         mblock |-> m_block, mend |-> m_end, heap |-> heap,
         st |-> "ok", got |-> NullBlock, allocs |-> 0, req |-> 0,
         twice |-> FALSE, lost |-> FALSE, ret |-> DefaultVal, freed |-> <<>>]

Dead(A, lo, hi) == \E i \in lo..hi : i <= Len(A.slots) /\ ~A.slots[i].live
Alive(A, lo, hi) == \E i \in lo..hi : i <= Len(A.slots) /\ A.slots[i].live

Fail(A, how) == [A EXCEPT !.st = how]

\* p is what aligned_alloc returns: 0 for NULL, else a pointer not in use.
GlobalAllocator_allocate(A, size, alignment, p) ==
    LET al == max(PtrSize, alignment)
        aligned_size == align_forward(size, al)
    IN  IF ~ndebug /\ (alignment % 2 # 0 \/ ~align_forward_pre(size, al))
        THEN Fail(A, "abort")
        ELSE IF p = 0 THEN Fail(A, "abort")
        ELSE [A EXCEPT !.got = [ptr |-> p, size |-> aligned_size],
                       !.heap = A.heap \cup {p}]

GlobalAllocator_deallocate(A, block) ==
    IF block.ptr = 0 THEN A
    ELSE IF block.ptr \notin A.heap THEN Fail(A, "ub")
    ELSE [A EXCEPT !.heap = A.heap \ {block.ptr}]

Arena_allocate(A, size, alignment) ==
    IF ~ndebug /\ ~push_pre(A.mend, size, alignment)
    THEN Fail(A, "abort")
    ELSE [A EXCEPT !.got = push_block(A.mblock, A.mend, size, alignment),
                   !.mend = push_cursor(A.mblock, A.mend, size, alignment)]

Arena_deallocate(A, block, alignment) ==
    IF ~ndebug /\ ~pop_pre(A.mend, alignment)
    THEN Fail(A, "abort")
    ELSE [A EXCEPT !.mend = pop_cursor(A.mend, block, alignment)]

\* p is where the operating system maps the pages: 0 when reserving or
\* committing them fails.
PagesAllocator_allocate(A, size, alignment, p) ==
    IF ~ndebug /\ ~(alignment <= PageSize) THEN Fail(A, "abort")
    ELSE IF p = 0 \/ reserve_memory(size).size > SizeMax THEN Fail(A, "abort")
    ELSE [A EXCEPT !.got = [ptr |-> p, size |-> reserve_memory(size).size],
                   !.heap = A.heap \cup {p}]

\* released is what try_release_memory returns.
PagesAllocator_deallocate(A, block, released) ==
    IF ~released THEN Fail(A, "abort")
    ELSE [A EXCEPT !.heap = A.heap \ {block.ptr}]

allocate(A, size, alignment, p) ==
    LET B == CASE a_kind = "Global" -> GlobalAllocator_allocate(A, size, alignment, p)
               [] a_kind = "Pages" -> PagesAllocator_allocate(A, size, alignment, p)
               [] OTHER -> Arena_allocate(A, size, alignment)
    IN  [B EXCEPT !.allocs = A.allocs + 1, !.req = size]

\* freed lists the blocks the call has passed to m_allocator.deallocate.
deallocate(A, block, alignment) ==
    LET B == CASE a_kind = "Global" -> GlobalAllocator_deallocate(A, block)
               [] a_kind = "Pages" -> PagesAllocator_deallocate(A, block, TRUE)
               [] OTHER -> Arena_deallocate(A, block, alignment)
    IN  [B EXCEPT !.freed = Append(A.freed, block)]

\* relocate(*this, Span(new_block.ptr, new_block.size / sizeof(T)))
relocate(A, new_block) ==
    LET moved == min(A.count, capacity(new_block))
    IN  IF moved > Len(A.slots) THEN Fail(A, "ub")
        ELSE [A EXCEPT !.slots = [i \in 1..capacity(new_block) |->
                                    IF i <= moved
                                    THEN [v |-> A.slots[i].v, live |-> TRUE]
                                    ELSE FreshSlot],
                       !.twice = A.twice \/ Dead(A, 1, moved),
                       !.lost = A.lost \/ Alive(A, moved + 1, Len(A.slots))]

reserve(A, count, p) ==
    IF count <= capacity(A.block) THEN A
    ELSE LET B == allocate(A, Wrap(count * SizeofT), AlignofT, p)
             C == relocate(B, B.got)
             D == deallocate(C, A.block, AlignofT)
         IN  IF B.st # "ok" THEN B
             ELSE IF C.st # "ok" THEN C
             ELSE IF D.st # "ok" THEN D
             ELSE [D EXCEPT !.block = B.got]

\* Slots lo..hi (1-based, inclusive) of the current block; touching a slot
\* outside the block is undefined.
InBlock(A, lo, hi) == hi < lo \/ (1 <= lo /\ hi <= Len(A.slots))

\* construct(range, args...): an object with value v is created in each slot.
construct(A, lo, hi, v) ==
    IF ~InBlock(A, lo, hi) THEN Fail(A, "ub")
    ELSE [A EXCEPT !.slots = [i \in 1..Len(A.slots) |->
                                IF lo <= i /\ i <= hi THEN [v |-> v, live |-> TRUE]
                                ELSE A.slots[i]]]

\* fill(range, x): x is assigned to each slot.
fill(A, lo, hi, x) ==
    IF ~InBlock(A, lo, hi) THEN Fail(A, "ub")
    ELSE [A EXCEPT !.slots = [i \in 1..Len(A.slots) |->
                                IF lo <= i /\ i <= hi THEN [A.slots[i] EXCEPT !.v = x]
                                ELSE A.slots[i]]]

\* destroy_backward(range): the object in each slot is destroyed.
destroy_backward(A, lo, hi) ==
    IF ~InBlock(A, lo, hi) THEN Fail(A, "ub")
    ELSE [A EXCEPT !.slots = [i \in 1..Len(A.slots) |->
                                IF lo <= i /\ i <= hi THEN [A.slots[i] EXCEPT !.live = FALSE]
                                ELSE A.slots[i]],
                   !.twice = A.twice \/ Dead(A, lo, hi)]

\* std::destroy_at(&slot i)
destroy_at(A, i) == destroy_backward(A, i, i)

\* copy(src, dst) with src = slots from+1.. and dst = slots from.. of *this:
\* n assignments, each slot from the one after it.
copy(A, from, n) ==
    IF ~InBlock(A, from, from + n) THEN Fail(A, "ub")
    ELSE [A EXCEPT !.slots = [i \in 1..Len(A.slots) |->
                                IF from <= i /\ i < from + n
                                THEN [A.slots[i] EXCEPT !.v = A.slots[i + 1].v]
                                ELSE A.slots[i]]]

Then(A, count) == IF A.st = "ok" THEN [A EXCEPT !.count = count] ELSE A

clear(A) == Then(destroy_backward(A, 1, A.count), 0)

resize(A, count, v, p) ==
    IF count > A.count
    THEN LET R == IF count > capacity(A.block) THEN reserve(A, count, p) ELSE A
         IN  IF R.st # "ok" THEN R
             ELSE Then(construct(R, R.count + 1, count, v), count)
    ELSE IF count < A.count
    THEN Then(destroy_backward(A, count + 1, A.count), count)
    ELSE A

\* The allocator a move leaves behind: an Arena that owns nothing.
MovedFrom(A) == [A EXCEPT !.mblock = NullBlock, !.mend = 0]

\* operator=(Array&&) from a temporary built by Array(uninit, std::move(m_allocator), count):
\* the old elements are destroyed, the old block goes to the allocator left in *this.
move_assign(A, B) ==
    LET C == clear(B)
        D == IF A.block.ptr = 0 THEN C
             ELSE IF a_kind = "Global" THEN GlobalAllocator_deallocate(C, A.block)
             ELSE [C EXCEPT !.st = Arena_deallocate(MovedFrom(C), A.block, AlignofT).st]
    IN  IF C.st # "ok" THEN C
        ELSE IF D.st # "ok" THEN D
        ELSE [D EXCEPT !.block = B.got,
                       !.slots = [i \in 1..capacity(B.got) |-> FreshSlot],
                       !.lost = D.lost \/ Alive(C, 1, Len(C.slots))]

assign(A, count, x, p) ==
    IF count <= capacity(A.block)
    THEN IF count <= A.count
         THEN Then(fill(A, 1, count, x), count)
         ELSE LET F == fill(A, 1, A.count, x)
              IN  IF F.st # "ok" THEN F
                  ELSE Then(construct(F, A.count + 1, count, DefaultVal), count)
    ELSE LET B == allocate(A, Wrap(count * SizeofT), AlignofT, p)
             M == move_assign(A, B)
         IN  IF B.st # "ok" THEN B
             ELSE IF M.st # "ok" THEN M
             ELSE Then(construct(M, 1, count, x), count)

append(A, x, p) ==
    LET R == reserve(A, Wrap(A.count + 1), p)
    IN  IF R.st # "ok" THEN R
        ELSE Then(construct(R, R.count + 1, R.count + 1, x), Wrap(R.count + 1))

append_n(A, n, x, p) ==
    LET R == reserve(A, Wrap(A.count + n), p)
    IN  IF R.st # "ok" THEN R
        ELSE Then(construct(R, R.count + 1, R.count + n, x), Wrap(R.count + n))

\* relocate_backward(Span(*this)[{start = i}], as_raw_span()[{start = size() + 1}]):
\* the k-th element from the end of the source goes to the k-th slot from the
\* end of the destination.
relocate_backward(A, i) ==
    LET src_size == A.count - i
        dst_size == Wrap(capacity(A.block) - (A.count + 1))
        shift == dst_size + 1
    IN  IF src_size > dst_size THEN Fail(A, IF ndebug THEN "ub" ELSE "abort")
        ELSE IF src_size > 0 /\ A.count + shift > Len(A.slots) THEN Fail(A, "ub")
        ELSE [A EXCEPT !.slots = [j \in 1..Len(A.slots) |->
                 IF A.count + shift - src_size < j /\ j <= A.count + shift
                 THEN [v |-> A.slots[j - shift].v, live |-> TRUE]
                 ELSE IF i < j /\ j <= A.count
                 THEN [A.slots[j] EXCEPT !.live = FALSE]
                 ELSE A.slots[j]],
                   !.twice = A.twice \/ Dead(A, i + 1, A.count)]

insert(A, i, x, p) ==
    LET R == reserve(A, Wrap(A.count + 1), p)
        B == relocate_backward(R, i)
    IN  IF R.st # "ok" THEN R
        ELSE IF B.st # "ok" THEN B
        ELSE Then(construct(B, i + 1, i + 1, x), Wrap(B.count + 1))

\* ret is the value the call returns: the element moved out of slot idx.
remove(A, idx) ==
    IF ~(idx < A.count) THEN Fail(A, "abort")
    ELSE LET D == destroy_at(A, idx + 1)
         IN  IF D.st # "ok" THEN D
             ELSE Then([copy(D, idx + 1, A.count - idx - 1)
                           EXCEPT !.ret = A.slots[idx + 1].v], A.count - 1)

\* copy(Span(*this)[{start = src}], Span(*this)[{start = dst}]) with dst below src:
\* n assignments in ascending order.
copy_range(A, src, dst, n) ==
    IF ~InBlock(A, dst, src + n - 1) THEN Fail(A, "ub")
    ELSE [A EXCEPT !.slots = [i \in 1..Len(A.slots) |->
                                IF dst <= i /\ i < dst + n
                                THEN [A.slots[i] EXCEPT !.v = A.slots[i + (src - dst)].v]
                                ELSE A.slots[i]]]

remove_range(A, start, end) ==
    IF ~ndebug /\ ~(start <= A.count /\ end <= A.count /\ Wrap(end - start) <= A.count)
    THEN Fail(A, "abort")
    ELSE LET D == destroy_backward(A, start + 1, end)
         IN  IF D.st # "ok" THEN D
             ELSE Then(copy_range(D, end + 1, start + 1, A.count - end),
                       A.count - (end - start))

\* Array(A&& allocator) on an allocator of the same kind as A's: for an Arena,
\* a second Arena(capacity) of the same capacity with nothing pushed.
Fresh(A) == [A EXCEPT !.block = NullBlock, !.count = 0, !.slots = <<>>,
                      !.mend = A.mblock.ptr]

\* Array(uninit, allocator, count)
array_uninit(E, count, p) ==
    IF count = 0 THEN E
    ELSE LET B == allocate(E, Wrap(count * SizeofT), AlignofT, p)
         IN  IF B.st # "ok" THEN B
             ELSE [B EXCEPT !.block = B.got, !.count = count,
                            !.slots = [i \in 1..capacity(B.got) |-> FreshSlot]]

\* Array(allocator, count, args...)
array_count(E, count, x, p) ==
    LET U == array_uninit(E, count, p)
    IN  IF U.st # "ok" THEN U ELSE construct(U, 1, U.count, x)

\* Array::deallocate()
Array_deallocate(A) ==
    IF A.block.ptr = 0 THEN A
    ELSE LET D == deallocate(A, A.block, AlignofT)
         IN  IF D.st # "ok" THEN D
             ELSE [D EXCEPT !.block = NullBlock, !.slots = <<>>,
                            !.lost = D.lost \/ Alive(D, 1, Len(D.slots))]

\* ~Array()
destructor(A) ==
    LET C == clear(A)
    IN  IF C.st # "ok" THEN C ELSE Array_deallocate(C)

\* What std::exchange and the allocator's move leave in other.
moved_from(S) == [MovedFrom(S) EXCEPT !.block = NullBlock, !.count = 0, !.slots = <<>>]

\* operator=(Array&& other) with A as *this and S as other, S built last on
\* the heap the two share.
move_assign_from(A, S) ==
    LET D == destructor([A EXCEPT !.heap = S.heap])
    IN  IF S.st # "ok" THEN S
        ELSE IF D.st # "ok" THEN D
        ELSE [D EXCEPT !.block = S.block, !.count = S.count, !.slots = S.slots,
                       !.mblock = S.mblock, !.mend = S.mend]

\* Array(Array&& other): *this starts from the default member initializers.
move_construct(S) ==
    move_assign_from([MovedFrom(S) EXCEPT !.block = NullBlock, !.count = 0, !.slots = <<>>], S)

\* The pointer the next aligned_alloc returns, 0 when the heap has none left.
NextFree(A) ==
    IF HeapPtrs \ A.heap = {} THEN 0 ELSE CHOOSE q \in HeapPtrs \ A.heap : TRUE

\* for (const auto& element : r) { this->append(element); } from element i on;
\* p is what the first allocation returns.
RECURSIVE append_each(_, _, _, _)
append_each(A, r, i, p) ==
    IF i > Len(r) \/ A.st # "ok" THEN A
    ELSE LET B == append(A, r[i], p)
         IN  append_each(B, r, i + 1, IF p = 0 THEN 0 ELSE NextFree(B))

\* uninitialized_copy(r, *this): element i of r is constructed in slot i.
uninitialized_copy(A, r) ==
    IF ~ndebug /\ ~(Len(r) <= A.count) THEN Fail(A, "abort")
    ELSE IF ~InBlock(A, 1, Len(r)) THEN Fail(A, "ub")
    ELSE [A EXCEPT !.slots = [i \in 1..Len(A.slots) |->
                                IF i <= Len(r) THEN [v |-> r[i], live |-> TRUE]
                                ELSE A.slots[i]]]

\* Array(from_range, allocator, r) for a range that is not sized
from_range(E, r, p) == append_each(E, r, 1, p)

\* Array(from_range, allocator, r) for a sized range
from_sized_range(E, r, p) ==
    LET U == array_uninit(E, Len(r), p)
    IN  IF U.st # "ok" THEN U ELSE uninitialized_copy(U, r)

\* First parameter of each Array constructor that takes two arguments, and of
\* each assign that takes two.
CtorParams == {"size_t", "A&&", "uninit_t", "from_range_t"}
AssignParams == {"size_t"}

\* Overloads whose first parameter accepts an argument of type arg: a pointer
\* converts implicitly to none of the parameter types above.
Viable(params, arg) == {q \in params : q = arg}

\* Array(Array& other) : Array(other.data(), other.size()); with no viable
\* constructor the program is ill-formed.
copy_construct(S) ==
    IF Viable(CtorParams, "T*") = {} THEN Fail(Fresh(S), "ill-formed")
    ELSE array_count(Fresh(S), S.count, DefaultVal, S.block.ptr)

\* operator=(const Array& other): this->assign(other.data(), other.size())
copy_assign(A, S) ==
    IF S.st # "ok" THEN S
    ELSE IF Viable(AssignParams, "const T*") = {} THEN Fail(A, "ill-formed")
    ELSE assign(A, S.count, DefaultVal, S.block.ptr)

(***************************************************************************)
(* The reference list the Array is compared with.                          *)
(***************************************************************************)
Repeat(n, x) == [i \in 1..n |-> x]
ListResize(l, n, v) == [i \in 1..n |-> IF i <= Len(l) THEN l[i] ELSE v]
ListInsert(l, i, x) ==
    [j \in 1..(Len(l) + 1) |-> IF j <= i THEN l[j] ELSE IF j = i + 1 THEN x ELSE l[j - 1]]
ListRemove(l, idx) == RemoveAt(l, idx + 1)
ListRemoveRange(l, start, end) ==
    [j \in 1..(Len(l) - (end - start)) |-> IF j <= start THEN l[j] ELSE l[j + (end - start)]]

(***************************************************************************)
(* Array operations.  Each action is one call on the Array; an assertion   *)
(* failure ends the process, undefined behaviour ends the analysis.        *)
(***************************************************************************)
Ptrs == IF a_kind = "Arena" THEN {0} ELSE (HeapPtrs \ heap) \cup {0}

Call(op, R, newref) ==
    /\ Running /\ ~ub
    /\ aborted' = (R.st = "abort")
    /\ ub' = (R.st = "ub")
    /\ IF R.st = "ok"
       THEN /\ a_block' = R.block
            /\ a_count' = R.count
            /\ a_slots' = R.slots
            /\ m_end' = R.mend
            /\ heap' = R.heap
            /\ ref' = newref
            /\ only_appends' = (only_appends /\ op = "append")
            /\ reallocs' = IF only_appends /\ op = "append"
                           THEN reallocs + (IF a_count > 0 THEN R.allocs ELSE 0)
                           ELSE 0
            /\ last' = Called(op, R.allocs > 0, NullBlock)
       ELSE UNCHANGED <<a_block, a_count, a_slots, m_end, heap, ref,
                        only_appends, reallocs, last>>
    /\ UNCHANGED <<ndebug, a_kind, m_block, blocks, phase, otherVars>>

Reserve(count, p) == Call("reserve", reserve(Self, count, p), ref)

Resize(count, v, p) == Call("resize", resize(Self, count, v, p), ListResize(ref, count, v))

Assign(count, x, p) == Call("assign", assign(Self, count, x, p), Repeat(count, x))

AppendUpTo(limit, x, p) ==
    /\ a_count < limit
    /\ Call("append", append(Self, x, p), Append(ref, x))

AppendOne(x, p) == AppendUpTo(MaxLen, x, p)

AppendN(n, x, p) ==
    /\ a_count + n <= MaxLen
    /\ Call("append_n", append_n(Self, n, x, p), ref \o Repeat(n, x))

Insert(i, x, p) ==
    /\ a_count < MaxLen
    /\ i <= a_count
    /\ Call("insert", insert(Self, i, x, p), ListInsert(ref, i, x))

Remove(idx) ==
    /\ idx < a_count
    /\ Call("remove", remove(Self, idx), ListRemove(ref, idx))

RemoveRange(start, end) ==
    /\ start <= end
    /\ end <= a_count
    /\ Call("remove", remove_range(Self, start, end), ListRemoveRange(ref, start, end))

ClearAll == Call("clear", clear(Self), <<>>)

\* The temporary Array(allocator, n, x) a move-assignment takes from.
Source(n, x, p) == array_count(Fresh(Self), n, x, p)

\* *this = Array(allocator, n, x)
MoveAssign(n, x, p) ==
    Call("move_assign", move_assign_from(Self, Source(n, x, p)), Repeat(n, x))

\* Array moved(std::move(*this)), after which the model follows moved.
MoveConstruct == Call("move", move_construct(Self), ref)

\* A program that holds an ill-formed call is rejected when it is built: the
\* run ends at the call without having executed it.
Rejected(op, R) ==
    /\ Running /\ ~ub
    /\ R.st = "ill-formed"
    /\ aborted' = TRUE
    /\ last' = Called(op, FALSE, NullBlock)
    /\ UNCHANGED <<ndebug, m_block, m_end, blocks, phase, arrayVars, otherVars>>

\* *this = other, with other an Array(allocator, n, x)
CopyAssign(n, x, p) ==
    IF copy_assign(Self, Source(n, x, p)).st = "ill-formed"
    THEN Rejected("copy_assign", copy_assign(Self, Source(n, x, p)))
    ELSE Call("copy_assign", copy_assign(Self, Source(n, x, p)), Repeat(n, x))

\* Array copied(*this), after which the model follows copied.
CopyConstruct ==
    IF copy_construct(Self).st = "ill-formed"
    THEN Rejected("copy", copy_construct(Self))
    ELSE Call("copy", copy_construct(Self), ref)

\* The ranges an Array is built from.
Ranges == UNION {[1..n -> Vals] : n \in 0..MaxLen}

\* The array has just been constructed empty and nothing was called on it.
Constructing == last = NoCall /\ a_block = NullBlock /\ a_count = 0

\* Array(from_range, allocator, r), r a forward range without a size
FromRange(r, p) ==
    /\ Constructing
    /\ Call("from_range", from_range(Self, r, p), r)

\* Array(from_range, allocator, r), r a sized range
FromSizedRange(r, p) ==
    /\ Constructing
    /\ Call("from_sized_range", from_sized_range(Self, r, p), r)

InitArray ==
    /\ ndebug \in BOOLEAN
    /\ aborted = FALSE
    /\ a_kind \in {"Global", "Arena"}
    /\ \/ a_kind = "Global" /\ m_block = NullBlock /\ m_end = 0
       \/ a_kind = "Arena" /\ m_block = NullBlock /\ m_end = 0
       \/ a_kind = "Arena" /\ \E pages \in 1..MaxPages :
              m_block = reserve_memory(pages * PageSize) /\ m_end = m_block.ptr
    /\ blocks = <<>>
    /\ phase = "off"
    /\ last = NoCall
    /\ ArrayInit

NextArray ==
    \/ \E count \in Counts \cup BigCounts, p \in Ptrs : Reserve(count, p)
    \/ \E count \in Counts, v \in Vals \cup {DefaultVal}, p \in Ptrs : Resize(count, v, p)
    \/ \E count \in Counts, x \in Vals, p \in Ptrs : Assign(count, x, p)
    \/ \E x \in Vals, p \in Ptrs : AppendOne(x, p)
    \/ \E n \in Counts, x \in Vals, p \in Ptrs : AppendN(n, x, p)
    \/ \E i \in Counts, x \in Vals, p \in Ptrs : Insert(i, x, p)
    \/ \E idx \in Counts : Remove(idx)
    \/ \E start \in Counts, end \in Counts : RemoveRange(start, end)
    \/ ClearAll
    \/ \E n \in Counts, x \in Vals, p \in Ptrs : MoveAssign(n, x, p)
    \/ MoveConstruct
    \/ \E n \in Counts, x \in Vals, p \in Ptrs : CopyAssign(n, x, p)
    \/ CopyConstruct
    \/ \E r \in Ranges, p \in Ptrs : FromRange(r, p)
    \/ \E r \in Ranges, p \in Ptrs : FromSizedRange(r, p)

SpecArray == InitArray /\ [][NextArray]_vars

\* An initially empty Array that is only ever appended to, one element at a time.
MaxAppends == 6

NextAppend == \E x \in Vals, p \in Ptrs : AppendUpTo(MaxAppends, x, p)

SpecAppend == InitArray /\ [][NextAppend]_vars

(***************************************************************************)
(* The Allocator capability, used directly: a client allocates blocks from *)
(* one of the three allocators and hands them back.                        *)
(***************************************************************************)
Allocate(size, alignment, p) ==
    /\ Running
    /\ Len(blocks) < MaxBlocks
    /\ LET R == allocate(Self, size, alignment, p)
       IN  /\ aborted' = (R.st = "abort")
           /\ IF R.st = "ok"
              THEN /\ m_end' = R.mend
                   /\ heap' = R.heap
                   /\ blocks' = IF R.got = NullBlock THEN blocks
                                ELSE Append(blocks, Issued(R.got, alignment))
                   /\ last' = Called("allocate", TRUE, R.got)
              ELSE UNCHANGED <<m_end, heap, blocks, last>>
    /\ UNCHANGED <<ndebug, m_block, phase, a_kind, a_block, a_count, a_slots,
                   ub, ref, only_appends, reallocs, otherVars>>

Deallocate(i, released) ==
    /\ Running
    /\ i \in 1..Len(blocks)
    /\ LET R == IF a_kind = "Pages"
                THEN PagesAllocator_deallocate(Self, BlockOf(blocks[i]), released)
                ELSE deallocate(Self, BlockOf(blocks[i]), blocks[i].align)
       IN  /\ aborted' = (R.st = "abort")
           /\ IF R.st = "ok"
              THEN /\ m_end' = R.mend
                   /\ heap' = R.heap
                   /\ blocks' = RemoveAt(blocks, i)
                   /\ last' = Called("deallocate", TRUE, NullBlock)
              ELSE UNCHANGED <<m_end, heap, blocks, last>>
    /\ UNCHANGED <<ndebug, m_block, phase, a_kind, a_block, a_count, a_slots,
                   ub, ref, only_appends, reallocs, otherVars>>

InitAlloc ==
    /\ ndebug \in BOOLEAN
    /\ aborted = FALSE
    /\ a_kind \in {"Global", "Pages", "Arena"}
    /\ IF a_kind = "Arena"
       THEN \E pages \in 1..MaxPages :
              m_block = reserve_memory(pages * PageSize) /\ m_end = m_block.ptr
       ELSE m_block = NullBlock /\ m_end = 0
    /\ blocks = <<>>
    /\ phase = "off"
    /\ last = NoCall
    /\ ArrayInit

NextAlloc ==
    \/ \E size \in Sizes, alignment \in Aligns, p \in Ptrs : Allocate(size, alignment, p)
    \/ \E i \in 1..MaxBlocks, released \in BOOLEAN : Deallocate(i, released)

SpecAlloc == InitAlloc /\ [][NextAlloc]_vars

(***************************************************************************)
(* Claims about the Arena, checked under Spec.                             *)
(***************************************************************************)
\* x rounded up to a multiple of alignment, in unbounded integers.
AlignUp(x, alignment) == ((x + alignment - 1) \div alignment) * alignment

ArenaBase == m_block.ptr
ArenaLimit == m_block.ptr + m_block.size

\* C1: in every reachable state the cursor satisfies base <= cursor <= base + capacity.
C1_CursorInRegion == ArenaBase <= m_end /\ m_end <= ArenaLimit

\* C2: after pushes only, popping the blocks in strict reverse order, each with the
\* alignment it was pushed with, succeeds at every step and leaves the arena empty.
C2_LifoPopsSucceed ==
    (phase = "pop" /\ last.op = "pop") =>
        /\ last.ok
        /\ (blocks = <<>> => m_end = ArenaBase)

\* C3: pop of a live block that is not the most recently issued live block returns
\* false and leaves the cursor unchanged.
C3_PopNonTopFails ==
    [][\A i \in 1..MaxBlocks, alignment \in Aligns :
          (Pop(i, alignment) /\ ~aborted' /\ i < Len(blocks)) =>
              (~last'.ok /\ m_end' = m_end)]_vars

\* C4: push returns the empty block and leaves the cursor unchanged whenever the
\* aligned span would end beyond base + capacity, and every block it returns lies
\* inside [base, base + capacity).
C4_PushCapacityBound ==
    [][\A size \in Sizes, alignment \in Aligns :
          (Push(size, alignment) /\ ~aborted') =>
              /\ AlignUp(AlignUp(m_end, alignment) + size, alignment) > ArenaLimit
                    => (last'.ret = NullBlock /\ m_end' = m_end)
              /\ last'.ret # NullBlock
                    => /\ ArenaBase <= last'.ret.ptr
                       /\ last'.ret.ptr + last'.ret.size <= ArenaLimit]_vars

\* C5: try_grow returns the empty block and leaves the cursor unchanged whenever the
\* block cannot be grown in place: it is not top-of-stack, or it is and the arena
\* has too little capacity left for `additional` bytes.
C5_TryGrowFailureIsEmpty ==
    [][\A i \in 1..MaxBlocks, alignment \in Aligns, additional \in Sizes :
          (TryGrow(i, alignment, additional) /\ ~aborted') =>
              ((\/ blocks[i].ptr + blocks[i].size # m_end
                \/ AlignUp(AlignUp(m_end, alignment) + additional, alignment) > ArenaLimit)
                  => (last'.ret = NullBlock /\ m_end' = m_end))]_vars

\* C6: allocate(size, alignment) with size > 0 on GlobalAllocator, PagesAllocator or
\* Arena either aborts or returns a block with non-null pointer and at least size bytes.
C6_AllocateNeverEmpty ==
    [][\A size \in Sizes, alignment \in Aligns, p \in Ptrs :
          (Allocate(size, alignment, p) /\ size > 0 /\ ~aborted') =>
              (last'.ret.ptr # 0 /\ last'.ret.size >= size)]_vars

(***************************************************************************)
(* Claims about the Array, checked under SpecArray and SpecAppend.         *)
(***************************************************************************)
\* The elements at [0, size()), and whether each of them has a determinate value.
Elements == [i \in 1..a_count |-> a_slots[i].v]
Determinate == \A i \in 1..a_count : a_slots[i].v # Uninit

\* C7: size() <= capacity() holds after every call on the Array.
C7_SizeWithinCapacity == (Running /\ ~ub) => a_count <= capacity(a_block)

\* C8: after every call the elements at [0, size()) are exactly, in order, those of
\* the reference list the same calls were applied to.
C8_RefinesReferenceList ==
    (Running /\ ~ub /\ a_count <= capacity(a_block) /\ Determinate) => Elements = ref

\* C9: when append or append_n must grow the array, at least
\* max(2 * capacity in bytes, (size + count) * sizeof(T)) bytes are requested from
\* the allocator, and growing a non-empty full array at least doubles its capacity.
Doubles(R, count) ==
    /\ R.req >= max(2 * capacity(a_block) * SizeofT, (a_count + count) * SizeofT)
    /\ (a_count > 0 /\ a_count = capacity(a_block))
          => capacity(a_block') >= 2 * capacity(a_block)

C9_AmortizedDoubling ==
    [][/\ \A x \in Vals, p \in Ptrs :
             (AppendOne(x, p) /\ a_count + 1 > capacity(a_block) /\ ~aborted' /\ ~ub')
                 => Doubles(append(Self, x, p), 1)
       /\ \A n \in Counts, x \in Vals, p \in Ptrs :
             (AppendN(n, x, p) /\ a_count + n > capacity(a_block) /\ ~aborted' /\ ~ub')
                 => Doubles(append_n(Self, n, x, p), n)]_vars

\* C10: appending n single elements to an initially empty Array triggers at most
\* ceil(log2(n)) + 1 reallocations.
CeilLog2(n) == CHOOSE k \in 0..n : 2 ^ k >= n /\ \A j \in 0..(k - 1) : 2 ^ j < n

C10_LogReallocations ==
    (Running /\ ~ub /\ only_appends /\ a_count > 0) => reallocs <= CeilLog2(a_count) + 1

\* C11: the byte size requested by a growing reserve is count * sizeof(T) without
\* wrapping, saturated at the largest size_t, and the Array never adopts a block
\* smaller than size() * sizeof(T).
C11_OverflowSafeGrowth ==
    [][\A count \in Counts \cup BigCounts, p \in Ptrs :
          (Reserve(count, p) /\ count > capacity(a_block) /\ ~aborted' /\ ~ub') =>
              /\ reserve(Self, count, p).req = min(count * SizeofT, SizeMax)
              /\ a_block'.size >= a_count' * SizeofT]_vars

\* C12: after a call that changed the capacity (a growing reserve, append, append_n,
\* resize or insert), size() is as specified, the elements that existed before hold
\* the values they held (those at or after an insertion point one slot further),
\* every element of the old block was destroyed exactly once and none twice.
Grew == capacity(a_block') # capacity(a_block)
Done == ~aborted' /\ ~ub'
Kept(lo, hi, shift) ==
    \A i \in lo..hi :
        /\ i <= Len(a_slots)
        /\ i + shift <= Len(a_slots')
        /\ a_slots'[i + shift].live
        /\ a_slots'[i + shift].v = a_slots[i].v
DestroyedOnce(R) == ~R.twice /\ ~R.lost

C12_RelocationCorrect ==
    [][/\ \A count \in Counts \cup BigCounts, p \in Ptrs :
             (Reserve(count, p) /\ Grew /\ Done) =>
                 /\ a_count' = a_count
                 /\ Kept(1, a_count, 0)
                 /\ DestroyedOnce(reserve(Self, count, p))
       /\ \A x \in Vals, p \in Ptrs :
             (AppendOne(x, p) /\ Grew /\ Done) =>
                 /\ a_count' = a_count + 1
                 /\ Kept(1, a_count, 0)
                 /\ DestroyedOnce(append(Self, x, p))
       /\ \A n \in Counts, x \in Vals, p \in Ptrs :
             (AppendN(n, x, p) /\ Grew /\ Done) =>
                 /\ a_count' = a_count + n
                 /\ Kept(1, a_count, 0)
                 /\ DestroyedOnce(append_n(Self, n, x, p))
       /\ \A count \in Counts, v \in Vals \cup {DefaultVal}, p \in Ptrs :
             (Resize(count, v, p) /\ Grew /\ Done) =>
                 /\ a_count' = count
                 /\ Kept(1, a_count, 0)
                 /\ DestroyedOnce(resize(Self, count, v, p))
       /\ \A i \in Counts, x \in Vals, p \in Ptrs :
             (Insert(i, x, p) /\ Grew /\ Done) =>
                 /\ a_count' = a_count + 1
                 /\ Kept(1, i, 0)
                 /\ Kept(i + 1, a_count, 1)
                 /\ DestroyedOnce(insert(Self, i, x, p))]_vars

\* C13: after every Array mutator exactly the slots [0, size()) hold live elements
\* and the slots [size(), capacity()) hold none.
C13_LiveExactlyBelowSize ==
    (Running /\ ~ub /\ a_count <= capacity(a_block)) =>
        \A i \in 1..Len(a_slots) : a_slots[i].live <=> i <= a_count

\* C14: after assign(n, x), whatever the size and capacity before, size() is n and
\* every element at [0, n) equals x.
C14_AssignFills ==
    [][\A count \in Counts, x \in Vals, p \in Ptrs :
          (Assign(count, x, p) /\ Done) =>
              /\ a_count' = count
              /\ count <= Len(a_slots')
              /\ \A i \in 1..count : a_slots'[i].v = x]_vars

\* C15: after insert(idx, v) with idx <= size(), size() is one more, element idx is v,
\* the elements before idx are unchanged and each old element at j >= idx is at j + 1.
Same(lo, hi, shift) ==
    \A i \in lo..hi :
        /\ i <= Len(a_slots)
        /\ i + shift <= Len(a_slots')
        /\ a_slots'[i + shift].v = a_slots[i].v

C15_InsertShiftsTail ==
    [][\A i \in Counts, x \in Vals, p \in Ptrs :
          (Insert(i, x, p) /\ Done) =>
              /\ a_count' = a_count + 1
              /\ i + 1 <= Len(a_slots')
              /\ a_slots'[i + 1].v = x
              /\ Same(1, i, 0)
              /\ Same(i + 1, a_count, 1)]_vars

\* C16: remove(idx) with idx < size() returns the value that was at idx; afterwards
\* size() is one less, the elements before idx are unchanged and each old element
\* at j > idx is at j - 1.
C16_RemoveShiftsTail ==
    [][\A idx \in Counts :
          Remove(idx) =>
              /\ ~ub'
              /\ remove(Self, idx).ret = a_slots[idx + 1].v
              /\ a_count' = a_count - 1
              /\ Same(1, idx, 0)
              /\ Same(idx + 2, a_count, 0 - 1)]_vars

\* The moved-from array S is empty and its destructor destroys and frees nothing.
SrcEmptied(S) ==
    LET T == moved_from(S)
    IN  /\ T.count = 0 /\ capacity(T.block) = 0 /\ T.block.ptr = 0
        /\ destructor(T) = T

\* The destination's destructor steps on the heap h: each of its elements
\* ends destroyed and its block is handed back to its allocator.
Released(h) ==
    LET C == clear([Self EXCEPT !.heap = h])
        D == Array_deallocate(C)
    IN  /\ \A i \in 1..a_count : ~C.slots[i].live
        /\ D.st = "ok" /\ D.block.ptr = 0
        /\ a_kind = "Global" => (a_block.ptr \in h /\ a_block.ptr \notin D.heap)
        /\ a_kind = "Arena" => D.mend = a_block.ptr

\* C17: a move gives the destination the source's block, size and elements and
\* leaves the source empty (size 0, capacity 0, null data), so that destroying
\* the source destroys and deallocates nothing; a destination that owned a
\* block destroys its elements and deallocates that block exactly once.
C17_MoveTransfersOwnership ==
    [][/\ \A n \in Counts, x \in Vals, p \in Ptrs :
             (last'.op \in {"move_assign", last.op} /\ Source(n, x, p).st = "ok"
                  /\ MoveAssign(n, x, p) /\ ~aborted') =>
                 LET S == Source(n, x, p)
                 IN  /\ ~ub'
                     /\ a_block' = S.block
                     /\ a_count' = S.count
                     /\ a_slots' = S.slots
                     /\ SrcEmptied(S)
                     /\ a_block.ptr # 0 => Released(S.heap)
                     /\ a_kind = "Global" => heap' = S.heap \ {a_block.ptr}
       /\ (last'.op = "move" /\ MoveConstruct /\ ~aborted') =>
             /\ ~ub'
             /\ a_block' = a_block /\ a_count' = a_count /\ a_slots' = a_slots
             /\ SrcEmptied(Self)]_vars

\* C18: copy-construction and copy-assignment deep-copy: the copy has the
\* source's size and element-wise equal contents in a block distinct from the
\* source's.
C18_CopyIsDeep ==
    [][/\ \A n \in Counts, x \in Vals, p \in Ptrs :
             (Source(n, x, p).st = "ok" /\ CopyAssign(n, x, p)) =>
                 /\ ~aborted' /\ ~ub'
                 /\ a_count' = n
                 /\ Elements' = Repeat(n, x)
                 /\ n > 0 => a_block'.ptr # Source(n, x, p).block.ptr
       /\ CopyConstruct =>
             /\ ~aborted' /\ ~ub'
             /\ a_count' = a_count
             /\ Elements' = Elements
             /\ a_count > 0 => a_block'.ptr # a_block.ptr]_vars

\* C19: an Array built with from_range(r), for a sized or a non-sized range r
\* of any length including 0, has size() equal to the length of r and yields
\* on iteration a sequence equal to r.
C19_FromRangeRoundTrip ==
    [][\A r \in Ranges, p \in Ptrs :
          /\ (Constructing /\ FromRange(r, p) /\ ~aborted') =>
                 ~ub' /\ a_count' = Len(r) /\ Elements' = r
          /\ (Constructing /\ FromSizedRange(r, p) /\ ~aborted') =>
                 ~ub' /\ a_count' = Len(r) /\ Elements' = r]_vars

\* C20: a default-constructed Array has size() == 0, capacity() == 0 and
\* data() == null, and in every state reachable from it by mutators the block
\* pointer is null exactly when the block size is 0.
C20_NullIffEmptyBlock ==
    /\ last = NoCall => (a_count = 0 /\ capacity(a_block) = 0 /\ a_block.ptr = 0)
    /\ (Running /\ ~ub) => (a_block.ptr = 0 <=> a_block.size = 0)

\* The call completed on the block it started with.
Reused == ~ub' /\ a_block' = a_block

\* n elements fit in the block the array holds before the call.
Fits(n) == ~aborted' /\ n <= capacity(a_block)

Legit(R) ==
    \A i \in 1..Len(R.freed) :
        /\ R.freed[i] # NullBlock
        /\ R.freed[i] = a_block
        /\ a_kind = "Global" => a_block.ptr \in heap
        /\ Len(R.freed) = 1

\* C22: every block an Array passes to its allocator's deallocate was returned
\* by that allocator's allocate and not yet deallocated, each block obtained is
\* deallocated exactly once, and the empty block is never passed to deallocate.
C22_BlockLifecycle ==
    [][/\ \A count \in Counts \cup BigCounts, p \in Ptrs :
             (last'.op = "reserve" /\ Reserve(count, p) /\ Done) =>
                 Legit(reserve(Self, count, p))
       /\ \A x \in Vals, p \in Ptrs :
             (last'.op = "append" /\ AppendOne(x, p) /\ Done) =>
                 Legit(append(Self, x, p))
       /\ \A n \in Counts, x \in Vals, p \in Ptrs :
             (last'.op = "move_assign" /\ ref' = Repeat(n, x) /\ MoveAssign(n, x, p) /\ Done) =>
                 Legit(move_assign_from(Self, Source(n, x, p)))]_vars

\* C23: try_shrink(block, alignment, new_size) returns true only when
\* new_size <= block.size and the trailing region [block.ptr + new_size,
\* block.ptr + block.size) is top-of-stack, and then the cursor becomes
\* block.ptr + new_size; in every other case it returns false and the cursor
\* is unchanged.
C23_TryShrinkOnlyAtTop ==
    [][\A i \in 1..MaxBlocks, alignment \in Aligns, new_size \in Sizes :
          (TryShrink(i, alignment, new_size) /\ ~aborted') =>
              /\ last'.ok =>
                    /\ new_size <= blocks[i].size
                    /\ blocks[i].ptr + blocks[i].size = m_end
                    /\ m_end' = blocks[i].ptr + new_size
              /\ ~last'.ok => m_end' = m_end]_vars

\* The block of a freshly constructed arena of the same capacity.
FreshArena == reserve_memory(m_block.size)

MaxRing == 3
ElemSizes == {1, 2, 4}
\* The capacities a RingBuffer is constructed with; for the last two
\* capacity * sizeof(T) exceeds the largest size_t.
RingCounts == (0..MaxRing) \cup {TwoW \div rb_elem, TwoW \div rb_elem + 1}

\* RingBuffer::capacity()
rb_capacity(block) == block.size \div rb_elem

\* RingBuffer::alignment()
rb_alignment == rb_elem

\* RingBuffer(size_t capacity): the result of m_allocator.allocate.
RingBuffer_allocate(count, p) ==
    GlobalAllocator_allocate([st |-> "ok", got |-> NullBlock, heap |-> heap],
                             Wrap(count * rb_elem), rb_alignment, p)

\* RingBuffer::push: what it returns, or "ub" when its behaviour is undefined
\* (a remainder by zero; an assignment to a T that was never constructed).
push_result ==
    IF rb_capacity(rb_block) = 0 THEN "ub"
    ELSE IF (rb_write + 1) % rb_capacity(rb_block) = rb_read THEN "false"
    ELSE IF ~rb_trivial /\ ~rb_slots[rb_write + 1].live THEN "ub"
    ELSE "true"

\* RingBuffer() = default
RingInit ==
    /\ rb_n = 0
    /\ rb_block = NullBlock
    /\ rb_read = 0
    /\ rb_write = 0
    /\ rb_slots = <<>>
    /\ rb_fifo = <<>>
    /\ rb_fresh = TRUE

InitRing ==
    /\ ndebug \in BOOLEAN
    /\ aborted = FALSE
    /\ a_kind = "Global" /\ m_block = NullBlock /\ m_end = 0
    /\ blocks = <<>>
    /\ phase = "default"
    /\ last = NoCall
    /\ a_block = NullBlock /\ a_count = 0 /\ a_slots = <<>>
    /\ heap = {} /\ ub = FALSE /\ ref = <<>> /\ only_appends = TRUE /\ reallocs = 0
    /\ rb_elem \in ElemSizes
    /\ rb_trivial \in BOOLEAN
    /\ RingInit
    /\ f_args = <<>>
    /\ LifeIdle

ringFrame == <<ndebug, m_block, m_end, blocks, a_kind, a_block, a_count, a_slots,
               ref, only_appends, reallocs, rb_elem, rb_trivial, f_args, lifeVars>>

\* explicit RingBuffer(size_t capacity)
RingBuffer_capacity(count, p) ==
    /\ Running /\ ~ub
    /\ phase = "default"
    /\ LET R == RingBuffer_allocate(count, p)
       IN  /\ aborted' = (R.st = "abort")
           /\ IF R.st = "ok"
              THEN /\ rb_block' = R.got
                   /\ rb_slots' = [i \in 1..rb_capacity(R.got) |-> FreshSlot]
                   /\ heap' = R.heap
                   /\ rb_n' = count
                   /\ phase' = "ring"
                   /\ last' = Called("RingBuffer", TRUE, R.got)
              ELSE UNCHANGED <<rb_block, rb_slots, heap, rb_n, phase, last>>
    /\ UNCHANGED <<ub, rb_read, rb_write, rb_fifo, rb_fresh, ringFrame>>

\* auto push(const T& x) -> bool
RingPush(x) ==
    /\ Running /\ ~ub
    /\ ub' = (push_result = "ub")
    /\ IF push_result = "true"
       THEN /\ rb_slots' = [rb_slots EXCEPT ![rb_write + 1] = [v |-> x, live |-> TRUE]]
            /\ rb_write' = (rb_write + 1) % rb_capacity(rb_block)
            /\ rb_fifo' = Append(rb_fifo, x)
       ELSE UNCHANGED <<rb_slots, rb_write, rb_fifo>>
    /\ last' = IF push_result = "ub" THEN last
               ELSE Called("push", push_result = "true", x)
    /\ UNCHANGED <<aborted, heap, phase, rb_n, rb_block, rb_read, rb_fresh, ringFrame>>

\* RingBuffer::size()
rb_size ==
    IF rb_read <= rb_write
    THEN rb_write - rb_read
    ELSE (rb_capacity(rb_block) - rb_read) + rb_write

\* pop() that advances the read index without the remainder by capacity().
RingPopNoWrap ==
    /\ Running /\ ~ub
    /\ IF rb_read # rb_write
       THEN /\ last' = Called("pop", TRUE, rb_slots[rb_read + 1].v)
            /\ rb_slots' = [rb_slots EXCEPT ![rb_read + 1].live = FALSE]
            /\ rb_read' = rb_read + 1
            /\ rb_fifo' = IF rb_fifo = <<>> THEN rb_fifo ELSE Tail(rb_fifo)
       ELSE /\ last' = Called("pop", FALSE, Uninit)
            /\ UNCHANGED <<rb_slots, rb_read, rb_fifo>>
    /\ rb_fresh' = FALSE
    /\ UNCHANGED <<aborted, ub, heap, phase, rb_n, rb_block, rb_write, ringFrame>>

\* auto pop() -> std::optional<T>
RingPop ==
    /\ Running /\ ~ub
    /\ IF rb_read # rb_write
       THEN /\ last' = Called("pop", TRUE, rb_slots[rb_read + 1].v)
            /\ rb_slots' = [rb_slots EXCEPT ![rb_read + 1].live = FALSE]
            /\ rb_read' = (rb_read + 1) % rb_capacity(rb_block)
            /\ rb_fifo' = IF rb_fifo = <<>> THEN rb_fifo ELSE Tail(rb_fifo)
       ELSE /\ last' = Called("pop", FALSE, Uninit)
            /\ UNCHANGED <<rb_slots, rb_read, rb_fifo>>
    /\ rb_fresh' = FALSE
    /\ UNCHANGED <<aborted, ub, heap, phase, rb_n, rb_block, rb_write, ringFrame>>

NextRing ==
    \/ \E count \in RingCounts, p \in (HeapPtrs \ heap) \cup {0} :
          RingBuffer_capacity(count, p)
    \/ \E x \in Vals : RingPush(x)
    \/ RingPop

SpecRing == InitRing /\ [][NextRing]_vars


\* C25: RingBuffer is first in, first out. Every push and every pop has defined
\* behaviour; a pop returns a value exactly when some accepted push has not yet
\* been popped, and then it returns the oldest such value (rb_fifo is the queue
\* of the accepted pushes not yet popped, so none is lost or duplicated).
C25_RingIsFifo ==
    [][/\ \A x \in Vals : RingPush(x) => ~ub'
       /\ RingPop => /\ ~ub'
                     /\ last'.ok <=> (rb_fifo # <<>>)
                     /\ last'.ok => last'.ret = Head(rb_fifo)]_vars

\* C26: after RingBuffer(n) with n >= 1, while no pop has been called, each of
\* the first n push calls returns true.
C26_AcceptsNPushes ==
    [][\A x \in Vals :
          (/\ phase = "ring" /\ rb_n >= 1 /\ rb_fresh /\ Len(rb_fifo) < rb_n
           /\ RingPush(x)) => (~ub' /\ last'.op = "push" /\ last'.ok)]_vars


(***************************************************************************)
(* Pure functions: the literals of literals.hpp, the shifts of bit.hpp and *)
(* the checked arithmetic of math.hpp, over an unsigned type of WordBits   *)
(* bits. The six binary prefixes are PrefixBits apart (10 bits in a 64-bit *)
(* size_t; 1 bit here), and the largest, like 60 < 64, is below WordBits.  *)
(***************************************************************************)
WordBits == 7
PrefixBits == 1
WordMod == 2 ^ WordBits
WordMax == WordMod - 1
Words == 0..WordMax
Prefixes == 1..6

\* bits_of<T>
bits_of == WordBits

nullopt == [has |-> FALSE, val |-> 0]
Some(v) == [has |-> TRUE, val |-> v]

\* What a function that may abort does: it returns val, or the process aborts.
Returns(v) == [st |-> "ok", val |-> v]
Aborts == [st |-> "abort", val |-> 0]

checked_shl(x, amount) ==
    IF amount >= bits_of THEN nullopt ELSE Some((x * 2 ^ amount) % WordMod)

strict_shl(x, amount) ==
    LET result == checked_shl(x, amount)
    IN  IF ~result.has THEN Aborts ELSE Returns(result.val)

shl_abort_on_overflow(x, amount) ==
    LET result == strict_shl(x, amount)
    IN  IF result.st = "abort" THEN Aborts
        ELSE IF ~((x # 0 /\ result.val # 0) \/ (x = 0 /\ result.val = 0)) THEN Aborts
        ELSE result

\* No Arena, Array or RingBuffer exists; args are the arguments of the calls.
PureInit(args) ==
    /\ ndebug \in BOOLEAN
    /\ aborted = FALSE
    /\ a_kind = "Global" /\ m_block = NullBlock /\ m_end = 0
    /\ blocks = <<>>
    /\ phase = "pure"
    /\ last = NoCall
    /\ a_block = NullBlock /\ a_count = 0 /\ a_slots = <<>>
    /\ heap = {} /\ ub = FALSE /\ ref = <<>> /\ only_appends = TRUE /\ reallocs = 0
    /\ RingIdle
    /\ f_args \in args
    /\ LifeIdle

pureFrame == <<ndebug, m_block, m_end, blocks, phase, arrayVars, otherVars>>

\* A call of a pure function that returns R.
Apply(op, R) ==
    /\ Running
    /\ aborted' = (R.st = "abort")
    /\ last' = IF R.st = "ok" THEN Called(op, TRUE, R.val) ELSE last
    /\ UNCHANGED pureFrame

LiteralName == <<"_KiB", "_MiB", "_GiB", "_TiB", "_PiB", "_EiB">>

\* operator""_KiB (k = 1), _MiB, _GiB, _TiB, _PiB, _EiB (k = 6)
BinaryLiteral(k) ==
    Apply(LiteralName[k], shl_abort_on_overflow(f_args.x, k * PrefixBits))

InitLiterals == PureInit([x : Words])

NextLiterals == \E k \in Prefixes : BinaryLiteral(k)

SpecLiterals == InitLiterals /\ [][NextLiterals]_vars

\* C27: a binary size literal x_KiB .. x_EiB is x times its prefix whenever the
\* product fits in size_t, and the process aborts whenever it does not.
C27_LiteralsExactOrAbort ==
    [][\A k \in Prefixes :
          BinaryLiteral(k) =>
              LET product == f_args.x * 2 ^ (k * PrefixBits)
              IN  /\ aborted' <=> product > WordMax
                  /\ ~aborted' => last'.ret = product]_vars


(***************************************************************************)
(* math.hpp: checked and strict arithmetic over std::integral T, here the  *)
(* signed and the unsigned type of MathBits bits.                          *)
(***************************************************************************)
MathBits == 3

\* std::numeric_limits<T>::min() and max(); signed is std::is_signed_v<T>.
TMin(signed) == IF signed THEN 0 - 2 ^ (MathBits - 1) ELSE 0
TMax(signed) == IF signed THEN 2 ^ (MathBits - 1) - 1 ELSE 2 ^ MathBits - 1
TValues(signed) == TMin(signed)..TMax(signed)

\* v fits in T.
InT(signed, v) == TMin(signed) <= v /\ v <= TMax(signed)

\* The value of T congruent to v modulo 2 ^ MathBits.
Truncate(signed, v) ==
    (((v - TMin(signed)) + 2 ^ (2 * MathBits)) % (2 ^ MathBits)) + TMin(signed)

\* __builtin_add_overflow and its siblings: exact is the result in infinite
\* precision; they store it truncated to T and return whether it did not fit.
builtin_overflow(signed, exact) ==
    [stored |-> Truncate(signed, exact), overflow |-> ~InT(signed, exact)]

\* A variant of checked_add that returns the wrapped sum.
wrapping_add(signed, x, y) ==
    Some(builtin_overflow(signed, x + y).stored)

checked_add(signed, x, y) ==
    LET r == builtin_overflow(signed, x + y)
    IN  IF r.overflow THEN nullopt ELSE Some(r.stored)

strict_add(signed, x, y) ==
    LET sum == checked_add(signed, x, y)
    IN  IF ~sum.has THEN Aborts ELSE Returns(sum.val)

checked_sub(signed, x, y) ==
    LET r == builtin_overflow(signed, x - y)
    IN  IF r.overflow THEN nullopt ELSE Some(r.stored)

strict_sub(signed, x, y) ==
    LET difference == checked_sub(signed, x, y)
    IN  IF ~difference.has THEN Aborts ELSE Returns(difference.val)

checked_mul(signed, x, y) ==
    LET r == builtin_overflow(signed, x * y)
    IN  IF r.overflow THEN nullopt ELSE Some(r.stored)

strict_mul(signed, x, y) ==
    LET product == checked_mul(signed, x, y)
    IN  IF ~product.has THEN Aborts ELSE Returns(product.val)

\* A call of a pure function that returns the optional r.
ApplyChecked(op, r) ==
    /\ Running
    /\ last' = Called(op, r.has, r.val)
    /\ UNCHANGED <<aborted, pureFrame>>

CheckedAdd == ApplyChecked("checked_add", checked_add(f_args.signed, f_args.x, f_args.y))
CheckedSub == ApplyChecked("checked_sub", checked_sub(f_args.signed, f_args.x, f_args.y))
CheckedMul == ApplyChecked("checked_mul", checked_mul(f_args.signed, f_args.x, f_args.y))
StrictAdd == Apply("strict_add", strict_add(f_args.signed, f_args.x, f_args.y))
StrictSub == Apply("strict_sub", strict_sub(f_args.signed, f_args.x, f_args.y))
StrictMul == Apply("strict_mul", strict_mul(f_args.signed, f_args.x, f_args.y))

MathArgs ==
    {[signed |-> s, x |-> x, y |-> y] : s \in {TRUE}, x \in TValues(TRUE), y \in TValues(TRUE)}
    \cup
    {[signed |-> s, x |-> x, y |-> y] : s \in {FALSE}, x \in TValues(FALSE), y \in TValues(FALSE)}

InitMath == PureInit(MathArgs)

NextMath ==
    \/ CheckedAdd
    \/ CheckedSub
    \/ CheckedMul
    \/ StrictAdd
    \/ StrictSub
    \/ StrictMul

SpecMath == InitMath /\ [][NextMath]_vars

\* The call returned exact when exact fits in T, and nullopt when it does not.
Exact(exact) ==
    /\ last'.ok <=> InT(f_args.signed, exact)
    /\ last'.ok => last'.ret = exact

\* The call aborted when the checked operation returns nullopt, and returned
\* the value of the checked operation otherwise.
AsChecked(r) ==
    /\ aborted' <=> ~r.has
    /\ ~aborted' => last'.ret = r.val

\* C28: checked_add, checked_sub and checked_mul return the mathematical result
\* exactly when it is representable in T and nullopt exactly when it is not;
\* strict_add, strict_sub and strict_mul abort exactly when the checked
\* operation returns nullopt and otherwise return its value.
C28_CheckedArithmeticExact ==
    [][/\ CheckedAdd => Exact(f_args.x + f_args.y)
       /\ CheckedSub => Exact(f_args.x - f_args.y)
       /\ CheckedMul => Exact(f_args.x * f_args.y)
       /\ StrictAdd => AsChecked(checked_add(f_args.signed, f_args.x, f_args.y))
       /\ StrictSub => AsChecked(checked_sub(f_args.signed, f_args.x, f_args.y))
       /\ StrictMul => AsChecked(checked_mul(f_args.signed, f_args.x, f_args.y))]_vars

\* A signed addition that does not fit was refused.
C28_Refused ==
    /\ last.op = "checked_add" /\ ~last.ok
    /\ f_args.signed /\ f_args.x < 0 /\ f_args.y < 0


(***************************************************************************)
(* sort.hpp over arrays of integers. data is the whole array as a          *)
(* sequence; the element the code calls data[i] is data[base + i + 1],     *)
(* where base is the offset of the code's pointer into the array.          *)
(***************************************************************************)
MaxSort == 4
MaxKey == 2
SortVals == 0..MaxKey
Comparators == {"less", "greater"}

\* bpl::less and bpl::greater
compare(F, x, y) == IF F = "less" THEN x < y ELSE x > y

\* A variant of swap that only assigns data[i] = data[j].
overwrite(data, i, j) == [data EXCEPT ![i + 1] = data[j + 1]]

\* std::swap(data[i], data[j])
swap(data, i, j) == [data EXCEPT ![i + 1] = data[j + 1], ![j + 1] = data[i + 1]]

RECURSIVE is_sorted_from(_, _, _, _)
is_sorted_from(data, count, F, i) ==
    IF i < count
    THEN IF compare(F, data[i + 1], data[i]) THEN FALSE
         ELSE is_sorted_from(data, count, F, i + 1)
    ELSE TRUE

is_sorted(data, count, F) == is_sorted_from(data, count, F, 1)

\* The inner loop of selection_sort from j on: the final min_idx.
RECURSIVE selection_min(_, _, _, _, _)
selection_min(data, count, F, j, min_idx) ==
    IF j < count
    THEN selection_min(data, count, F, j + 1,
                       IF compare(F, data[j + 1], data[min_idx + 1]) THEN j ELSE min_idx)
    ELSE min_idx

RECURSIVE selection_from(_, _, _, _)
selection_from(data, count, F, i) ==
    IF i < count
    THEN selection_from(swap(data, i, selection_min(data, count, F, i + 1, i)),
                        count, F, i + 1)
    ELSE data

selection_sort(data, count, F) == selection_from(data, count, F, 0)

\* The inner loop of insertion_sort from j down.
RECURSIVE insertion_down(_, _, _)
insertion_down(data, F, j) ==
    IF j > 0 /\ compare(F, data[j + 1], data[j])
    THEN insertion_down(swap(data, j, j - 1), F, j - 1)
    ELSE data

RECURSIVE insertion_from(_, _, _, _)
insertion_from(data, count, F, i) ==
    IF i < count
    THEN insertion_from(insertion_down(data, F, i), count, F, i + 1)
    ELSE data

insertion_sort(data, count, F) == insertion_from(data, count, F, 1)

\* The loop of lomuto_partition from i on, and the swap that follows it.
RECURSIVE lomuto_from(_, _, _, _, _, _)
lomuto_from(data, base, pivot, F, i, partition_point) ==
    IF i < pivot
    THEN IF compare(F, data[base + i + 1], data[base + pivot + 1])
         THEN lomuto_from(swap(data, base + i, base + partition_point),
                          base, pivot, F, i + 1, partition_point + 1)
         ELSE lomuto_from(data, base, pivot, F, i + 1, partition_point)
    ELSE [data |-> swap(data, base + pivot, base + partition_point),
          p |-> partition_point]

lomuto_partition(data, base, count, F) ==
    IF count <= 1 THEN [data |-> data, p |-> 0]
    ELSE lomuto_from(data, base, count - 1, F, 0, 0)

\* quicksort(data + base, count, compare): each turn of the while loop sorts
\* the smaller partition by a nested call and continues with the larger.
RECURSIVE quicksort(_, _, _, _)
quicksort(data, base, count, F) ==
    IF count > 1
    THEN LET R == lomuto_partition(data, base, count, F)
             p == R.p
             right_size == count - (p + 1)
         IN  IF p <= right_size
             THEN quicksort(quicksort(R.data, base, p, F),
                            base + p + 1, count - (p + 1), F)
             ELSE quicksort(quicksort(R.data, base + p + 1, right_size, F),
                            base, p, F)
    ELSE data

Arrays == UNION {[1..n -> SortVals] : n \in 0..MaxSort}

\* input is the array before any call, data the array the calls sort in place.
SortArgs == {[input |-> a, data |-> a, F |-> F] : a \in Arrays, F \in Comparators}

sortFrame == <<ndebug, aborted, m_block, m_end, blocks, phase, arrayVars, ringVars, lifeVars>>

\* A call of a sort that leaves the array as sorted.
Sort(op, sorted) ==
    /\ Running
    /\ f_args' = [f_args EXCEPT !.data = sorted]
    /\ last' = Called(op, TRUE, NullBlock)
    /\ UNCHANGED sortFrame

SelectionSort ==
    Sort("selection_sort", selection_sort(f_args.data, Len(f_args.data), f_args.F))

InsertionSort ==
    Sort("insertion_sort", insertion_sort(f_args.data, Len(f_args.data), f_args.F))

Quicksort ==
    Sort("quicksort", quicksort(f_args.data, 0, Len(f_args.data), f_args.F))

IsSorted ==
    /\ Running
    /\ last' = Called("is_sorted", is_sorted(f_args.data, Len(f_args.data), f_args.F),
                      NullBlock)
    /\ UNCHANGED <<f_args, sortFrame>>

InitSort == PureInit(SortArgs)

NextSort ==
    \/ SelectionSort
    \/ InsertionSort
    \/ Quicksort
    \/ IsSorted

SpecSort == InitSort /\ [][NextSort]_vars

\* The number of elements of s equal to v.
Occurrences(s, v) == Cardinality({i \in DOMAIN s : s[i] = v})

Permutation(s, t) ==
    Len(s) = Len(t) /\ \A v \in SortVals : Occurrences(s, v) = Occurrences(t, v)

C30_TryGrowContiguous ==
    [][\A i \in 1..MaxBlocks, alignment \in Aligns, additional \in Sizes :
          (/\ last'.op = "try_grow" /\ ~aborted'
           /\ TryGrow(i, alignment, additional)
           /\ grow_top(m_end, BlockOf(blocks[i]))
           /\ last'.ret.size > 0) =>
              /\ last'.ret.ptr = blocks[i].ptr
              /\ last'.ret.size >= blocks[i].size + additional
              /\ last'.ret.ptr + last'.ret.size = m_end']_vars


\* C31: a push that succeeds returns a block that starts at the old cursor
\* rounded up to alignment, a multiple of alignment, whose size is at least
\* size and a multiple of alignment, and leaves the cursor at the block's end
\* (as an address of AddrBits bits).
C31_PushAligned ==
    [][\A size \in Sizes, alignment \in Aligns :
          (/\ last'.op = "push" /\ last'.ok /\ ~aborted'
           /\ Push(size, alignment)) =>
              /\ last'.ret.ptr % alignment = 0
              /\ last'.ret.ptr = AlignUp(m_end, alignment)
              /\ last'.ret.size >= size
              /\ last'.ret.size % alignment = 0
              /\ m_end' = Wrap(last'.ret.ptr + last'.ret.size)]_vars


\* C34: when the aligned begin plus size, or its rounding up to alignment,
\* exceeds the largest address, push returns the empty block and leaves the
\* cursor unchanged.
C34_PushOverflowSafe ==
    [][\A size \in Sizes, alignment \in Aligns :
          (/\ last'.op = "push" /\ ~aborted'
           /\ Push(size, alignment)
           /\ AlignUp(AlignUp(m_end, alignment) + size, alignment) > SizeMax) =>
              (last'.ret = NullBlock /\ m_end' = m_end)]_vars


(***************************************************************************)
(* Array::insert_range                                                     *)
(***************************************************************************)
\* relocate_backward(Span(*this)[{start = idx}], as_raw_span()[{end = end}]):
\* the k-th element from the end of the source goes to the k-th slot from the
\* end of the destination, the last element first.
relocate_backward_end(A, idx, end) ==
    LET src_size == A.count - idx
        shift == end - A.count
    IN  IF src_size > end THEN Fail(A, IF ndebug THEN "ub" ELSE "abort")
        ELSE IF src_size > 0 /\ ~InBlock(A, idx + 1, end) THEN Fail(A, "ub")
        ELSE [A EXCEPT !.slots = [j \in 1..Len(A.slots) |->
                 IF idx + shift < j /\ j <= end
                 THEN [v |-> A.slots[j - shift].v, live |-> TRUE]
                 ELSE IF idx < j /\ j <= A.count
                 THEN [A.slots[j] EXCEPT !.live = FALSE]
                 ELSE A.slots[j]],
                   !.twice = A.twice \/ Dead(A, idx + 1, A.count)]

\* uninitialized_copy(r, as_raw_span()[{start = start}]): element i of r is
\* constructed in slot start + i.
uninitialized_copy_from(A, r, start) ==
    IF ~ndebug /\ ~(Len(r) <= Wrap(capacity(A.block) - start)) THEN Fail(A, "abort")
    ELSE IF ~InBlock(A, start + 1, start + Len(r)) THEN Fail(A, "ub")
    ELSE [A EXCEPT !.slots = [i \in 1..Len(A.slots) |->
                                IF start < i /\ i <= start + Len(r)
                                THEN [v |-> r[i - start], live |-> TRUE]
                                ELSE A.slots[i]]]

insert_range(A, idx, r, p) ==
    IF Len(r) = 0 THEN A
    ELSE LET R == reserve(A, Wrap(A.count + Len(r)), p)
             B == relocate_backward_end(R, idx, Wrap(R.count + Len(r)))
             C == uninitialized_copy_from(B, r, idx)
         IN  IF R.st # "ok" THEN R
             ELSE IF B.st # "ok" THEN B
             ELSE Then(C, Wrap(C.count + Len(r)))

ListInsertRange(l, idx, r) ==
    [j \in 1..(Len(l) + Len(r)) |->
        IF j <= idx THEN l[j]
        ELSE IF j <= idx + Len(r) THEN r[j - idx]
        ELSE l[j - Len(r)]]

InsertRange(idx, r, p) ==
    /\ idx <= a_count
    /\ a_count + Len(r) <= MaxLen
    /\ Call("insert_range", insert_range(Self, idx, r, p), ListInsertRange(ref, idx, r))

NextInsertRange ==
    \/ \E r \in Ranges, p \in Ptrs : FromSizedRange(r, p)
    \/ \E count \in Counts, p \in Ptrs : Reserve(count, p)
    \/ \E idx \in Counts, r \in Ranges, p \in Ptrs : InsertRange(idx, r, p)

SpecInsertRange == InitArray /\ [][NextInsertRange]_vars

\* C32: insert_range(idx, r) with idx <= size() and r of length k has defined
\* behaviour; afterwards size() is k more, the elements before idx are
\* unchanged, the elements [idx, idx + k) are those of r in order and each old
\* element at j >= idx is at j + k; with k = 0 the array is unchanged.
C32_InsertRangeShiftsTail ==
    [][\A idx \in Counts, r \in Ranges, p \in Ptrs :
          (/\ last'.op \in {"insert_range", last.op} /\ ~aborted'
           /\ InsertRange(idx, r, p)) =>
              /\ ~ub'
              /\ a_count' = a_count + Len(r)
              /\ Same(1, idx, 0)
              /\ \A j \in 1..Len(r) :
                    idx + j <= Len(a_slots') /\ a_slots'[idx + j].v = r[j]
              /\ Same(idx + 1, a_count, Len(r))
              /\ Len(r) = 0 => UNCHANGED <<a_block, a_count, a_slots>>]_vars


\* The Arena can extend the array's block in place to hold count elements: the
\* block is top-of-stack and the bytes that are missing fit in the region.
CanGrowInPlace(count) ==
    /\ a_kind = "Arena"
    /\ a_block # NullBlock
    /\ capacity(a_block) < count
    /\ count * SizeofT <= SizeMax
    /\ grow_top(m_end, a_block)
    /\ m_end + (count * SizeofT - a_block.size) <= m_block.ptr + m_block.size

\* C33: when the Arena can extend the array's block in place, a growing
\* reserve or append leaves data() unchanged and allocates no second block.
C33_GrowsInPlace ==
    [][/\ \A count \in Counts, p \in Ptrs :
             (/\ last'.op = "reserve" /\ CanGrowInPlace(count)
              /\ Reserve(count, p) /\ Done) =>
                 /\ a_block'.ptr = a_block.ptr
                 /\ reserve(Self, count, p).allocs = 0
       /\ \A x \in Vals, p \in Ptrs :
             (/\ last'.op = "append" /\ CanGrowInPlace(a_count + 1)
              /\ AppendOne(x, p) /\ Done) =>
                 /\ a_block'.ptr = a_block.ptr
                 /\ append(Self, x, p).allocs = 0]_vars


(***************************************************************************)
(* algorithm.hpp: binary search over a span of integers; span[i] of the    *)
(* code is span[i + 1] here.                                               *)
(***************************************************************************)
\* The while loop of lower_bound from (base, len) on.
RECURSIVE lower_bound_from(_, _, _, _, _)
lower_bound_from(span, x, F, base, len) ==
    IF len # 0
    THEN LET half == len \div 2
             mid == base + half
         IN  IF compare(F, span[mid + 1], x)
             THEN lower_bound_from(span, x, F, mid + 1, len - (half + 1))
             ELSE lower_bound_from(span, x, F, base, half)
    ELSE base

lower_bound(span, x, F) == lower_bound_from(span, x, F, 0, Len(span))

\* The while loop of upper_bound from (base, len) on.
RECURSIVE upper_bound_from(_, _, _, _, _)
upper_bound_from(span, x, F, base, len) ==
    IF len # 0
    THEN LET half == len \div 2
             mid == base + half
         IN  IF compare(F, x, span[mid + 1])
             THEN upper_bound_from(span, x, F, mid + 1, len - (half + 1))
             ELSE upper_bound_from(span, x, F, base, half)
    ELSE base

upper_bound(span, x, F) == upper_bound_from(span, x, F, 0, Len(span))

\* The spans sorted by compare, with the value searched for.
SearchArgs ==
    {[span |-> a, x |-> x, F |-> F] :
        a \in {b \in Arrays : \A i \in 1..(Len(b) - 1) : b[i] <= b[i + 1]},
        x \in SortVals, F \in {"less"}}
    \cup
    {[span |-> a, x |-> x, F |-> F] :
        a \in {b \in Arrays : \A i \in 1..(Len(b) - 1) : b[i] >= b[i + 1]},
        x \in SortVals, F \in {"greater"}}

LowerBound == Apply("lower_bound", Returns(lower_bound(f_args.span, f_args.x, f_args.F)))

UpperBound == Apply("upper_bound", Returns(upper_bound(f_args.span, f_args.x, f_args.F)))

InitSearch == PureInit(SearchArgs)

NextSearch ==
    \/ LowerBound
    \/ UpperBound

SpecSearch == InitSearch /\ [][NextSearch]_vars

\* The indices i of span with compare(x, span[i]).
After(span, x, F) == {i \in 0..(Len(span) - 1) : compare(F, x, span[i + 1])}

\* C35: on a span sorted by compare, upper_bound returns the smallest index i
\* with compare(x, span[i]), or span.size() when there is none.
C35_UpperBound ==
    [][UpperBound =>
          LET after == After(f_args.span, f_args.x, f_args.F)
          IN  /\ after = {} => last'.ret = Len(f_args.span)
              /\ after # {} => (last'.ret \in after /\ \A i \in after : last'.ret <= i)]_vars

\* ---------------------------------------------------------------------------
\* Arena lifetime: construction, move construction, move assignment, destruction
\* (arena.hpp), over the regions the OS layer hands out (os.cpp).
\* ---------------------------------------------------------------------------

MaxArenas == 2

MaxRegions == 3

ArenaObjs == 1..MaxArenas

\* The empty MemoryBlock of a default-constructed or moved-from Arena.
NoRegion == 0

NotAlive == [alive |-> FALSE, m_block |-> NoRegion, m_end |-> NoRegion]

\* The mmap of reserve_memory: a fresh mapping, distinct from every mapping made before.
mmap_region(R) == Append(R, [decommitted |-> 0, released |-> 0])

\* try_decommit_memory: madvise and mprotect fail on the empty block.
try_decommit_memory(R, block) ==
    IF block = NoRegion THEN R
    ELSE [R EXCEPT ![block].decommitted = @ + 1]

\* try_release_memory: munmap fails on the empty block and unmaps nothing.
try_release_memory(R, block) ==
    IF block = NoRegion THEN R
    ELSE [R EXCEPT ![block].released = @ + 1]

InitLifetime ==
    /\ ndebug \in BOOLEAN
    /\ aborted = FALSE
    /\ a_kind = "Global" /\ m_block = NullBlock /\ m_end = 0
    /\ blocks = <<>>
    /\ phase = "lifetime"
    /\ last = NoCall
    /\ a_block = NullBlock /\ a_count = 0 /\ a_slots = <<>>
    /\ heap = {} /\ ub = FALSE /\ ref = <<>> /\ only_appends = TRUE /\ reallocs = 0
    /\ RingIdle
    /\ f_args = <<>>
    /\ objs = [o \in ArenaObjs |-> NotAlive]
    /\ regions = <<>>

lifeFrame == <<ndebug, m_block, m_end, blocks, phase, arrayVars, ringVars, f_args>>

\* Arena() = default
ArenaDefault(o) ==
    /\ ~aborted /\ ~objs[o].alive
    /\ objs' = [objs EXCEPT ![o] = [alive |-> TRUE, m_block |-> NoRegion, m_end |-> NoRegion]]
    /\ last' = Called("Arena()", TRUE, NullBlock)
    /\ UNCHANGED <<aborted, regions, lifeFrame>>

\* explicit Arena(size_t capacity): reserve, commit (asserted), m_end = m_block.ptr
ArenaReserve(o, committed) ==
    /\ ~aborted /\ ~objs[o].alive
    /\ Len(regions) < MaxRegions
    /\ regions' = mmap_region(regions)
    /\ IF committed
       THEN /\ objs' = [objs EXCEPT ![o] = [alive |-> TRUE, m_block |-> Len(regions'),
                                            m_end |-> Len(regions')]]
            /\ UNCHANGED aborted
       ELSE /\ aborted' = TRUE
            /\ UNCHANGED objs
    /\ last' = Called("Arena(capacity)", committed, NullBlock)
    /\ UNCHANGED lifeFrame

\* Arena(Arena&& other): both fields exchanged out of other
ArenaMoveConstruct(o, other) ==
    /\ ~aborted /\ ~objs[o].alive /\ objs[other].alive
    /\ objs' = [objs EXCEPT ![o] = [alive |-> TRUE, m_block |-> objs[other].m_block,
                                    m_end |-> objs[other].m_end],
                            ![other] = [alive |-> TRUE, m_block |-> NoRegion, m_end |-> NoRegion]]
    /\ last' = Called("Arena(Arena&&)", TRUE, NullBlock)
    /\ UNCHANGED <<aborted, regions, lifeFrame>>

\* operator=(Arena&& other): m_block = exchange(other.m_block, {}), m_end likewise
ArenaMoveAssign(o, other) ==
    /\ ~aborted /\ objs[o].alive /\ objs[other].alive
    /\ objs' = IF o = other THEN objs
               ELSE [objs EXCEPT ![o] = [alive |-> TRUE, m_block |-> objs[other].m_block,
                                         m_end |-> objs[other].m_end],
                                 ![other] = [alive |-> TRUE, m_block |-> NoRegion,
                                             m_end |-> NoRegion]]
    /\ last' = Called("operator=(Arena&&)", TRUE, NullBlock)
    /\ UNCHANGED <<aborted, regions, lifeFrame>>

\* ~Arena(): try_decommit_memory(m_block), then try_release_memory(m_block)
ArenaDestroy(o) ==
    /\ ~aborted /\ objs[o].alive
    /\ regions' = try_release_memory(try_decommit_memory(regions, objs[o].m_block),
                                     objs[o].m_block)
    /\ objs' = [objs EXCEPT ![o] = NotAlive]
    /\ last' = Called("~Arena()", TRUE, NullBlock)
    /\ UNCHANGED <<aborted, lifeFrame>>

NextLifetime ==
    \/ \E o \in ArenaObjs : ArenaDefault(o)
    \/ \E o \in ArenaObjs, committed \in BOOLEAN : ArenaReserve(o, committed)
    \/ \E o, other \in ArenaObjs : ArenaMoveConstruct(o, other)
    \/ \E o, other \in ArenaObjs : ArenaMoveAssign(o, other)
    \/ \E o \in ArenaObjs : ArenaDestroy(o)

SpecLifetime == InitLifetime /\ [][NextLifetime]_vars

\* The live Arena objects whose m_block is the region.
Owners(region) == {o \in ArenaObjs : objs[o].alive /\ objs[o].m_block = region}

\* C36: every region reserved by an Arena is decommitted and released exactly
\* once over its life: never twice, and a region not yet released is still owned
\* by exactly one live Arena, so that it will be released by that Arena's
\* destructor; in particular move-assigning into an Arena that owns a region
\* does not leave that region without an owner.
C36_ReleasedExactlyOnce ==
    phase = "lifetime" /\ ~aborted =>
        \A region \in 1..Len(regions) :
            /\ regions[region].released <= 1
            /\ regions[region].decommitted = regions[region].released
            /\ regions[region].released = 0 => Cardinality(Owners(region)) = 1
            /\ regions[region].released = 1 => Owners(region) = {}

\* ---------------------------------------------------------------------------
\* Arena: shrinking and the stack discipline.
\* ---------------------------------------------------------------------------

\* C37: after a successful try_shrink(block, alignment, new_size) of a block
\* pushed with that alignment, for any new_size <= block.size, the prefix {block.ptr, new_size} is the top of the
\* stack: pop of it with the same alignment succeeds (without tripping an
\* assertion) and rewinds the cursor to block.ptr.
C37_ShrunkPrefixIsTop ==
    [][\A i \in 1..MaxBlocks, alignment \in Aligns, new_size \in Sizes :
        (/\ last'.op = "try_shrink" /\ last'.ok /\ ~aborted'
         /\ i <= Len(blocks) /\ alignment = blocks[i].align
         /\ TryShrink(i, alignment, new_size)) =>
            LET prefix == [ptr |-> blocks[i].ptr, size |-> new_size]
            IN  /\ ndebug \/ pop_pre(m_end', alignment)
                /\ pop_ok(m_end', prefix, alignment)
                /\ pop_cursor(m_end', prefix, alignment) = blocks[i].ptr]_vars

\* The bytes of a block: addresses ptr .. ptr + size - 1.
Bytes(block) == {block.ptr + k : k \in 0..(block.size - 1)}

\* C38: between clears, the byte ranges of any two distinct live blocks issued
\* by the Arena are disjoint, and every live block ends at or before the cursor.
\* Blocks of size zero have no bytes and are left out.
C38_LiveBlocksDisjoint ==
    a_kind = "Arena" /\ ~aborted =>
        /\ \A i, j \in 1..Len(blocks) :
              i # j => Bytes(blocks[i]) \cap Bytes(blocks[j]) = {}
        /\ \A i \in 1..Len(blocks) :
              blocks[i].size > 0 => blocks[i].ptr + blocks[i].size <= m_end

\* ---------------------------------------------------------------------------
\* RingBuffer: indices, size and failure outcomes.
\* ---------------------------------------------------------------------------

\* C39: in every state of a RingBuffer with capacity() >= 1 reached by push and
\* pop, the read and write indices are below capacity(), size() equals the
\* number of accepted pushes minus the number of successful pops (the length of
\* rb_fifo), and 0 <= size() <= capacity() - 1.
C39_RingIndices ==
    (phase = "ring" /\ ~aborted /\ ~ub /\ rb_capacity(rb_block) >= 1) =>
        /\ rb_read < rb_capacity(rb_block)
        /\ rb_write < rb_capacity(rb_block)
        /\ rb_size = Len(rb_fifo)
        /\ 0 <= rb_size
        /\ rb_size <= rb_capacity(rb_block) - 1

\* An accepted push has wrapped the write index around below the read index.
C39_Wrapped ==
    /\ phase = "ring" /\ ~aborted /\ ~ub
    /\ last.op = "push" /\ last.ok
    /\ rb_write < rb_read
    /\ rb_size >= 1
    /\ rb_size = Len(rb_fifo)

\* No further push can be accepted: the buffer holds capacity() - 1 values, or
\* it has no storage at all (default-constructed).
rb_full == rb_capacity(rb_block) = 0 \/ rb_size = rb_capacity(rb_block) - 1

\* C40: failure outcomes are values and change nothing. push on a full buffer,
\* a default-constructed buffer of capacity 0 included, returns false without
\* faulting; pop on an empty buffer returns nullopt; each leaves the read index,
\* the write index and the stored elements unchanged.
C40_FailuresAreValues ==
    [][/\ \A x \in Vals :
             (rb_full /\ RingPush(x)) =>
                 /\ ~ub'
                 /\ last'.op = "push" /\ ~last'.ok
                 /\ UNCHANGED <<rb_read, rb_write, rb_slots>>
       /\ (rb_read = rb_write /\ RingPop) =>
             /\ ~ub'
             /\ last'.op = "pop" /\ ~last'.ok /\ last'.ret = Uninit
             /\ UNCHANGED <<rb_read, rb_write, rb_slots>>]_vars

====
